---- MODULE Spec2Model ----
(***************************************************************************)
(* Spy Cat Agency backend: the in-memory stores of backend/app/crud.py and *)
(* the request handlers of backend/app/routers/{cats,missions}.py.         *)
(*                                                                         *)
(* A handler is an operator from the stores and a request to the stores    *)
(* afterwards and the HTTP status of the response. An action is one turn   *)
(* of the event loop: a request that never suspends is one action, from    *)
(* its first line to its response; a create-cat request suspends twice in  *)
(* its breed validation and is three actions, with other requests handled  *)
(* while it waits.                                                         *)
(***************************************************************************)
EXTENDS Integers, Sequences, FiniteSets, TLC

\* ---------------------------------------------------------------- bounds
\* Creations stop once this many ids of a kind have been handed out.
MaxCats == 2
MaxMissions == 2
MaxTargets == 2

\* ---------------------------------------------------------------- constants
\* Optional[int] fields hold None; ids start at 1, so 0 stands for None.
None == 0
\* Optional[str] notes hold None.
NoNotes == "<None>"
\* MissionCreate.targets: Field(..., min_length=1, max_length=3)
min_length == 1
max_length == 3

\* ---------------------------------------------------------------- inputs
Names == {"Tom"}
Breeds == {"Siamese", "siamese", "Dragon"}
\* The breed names TheCatAPI may list.
ApiBreeds == {"Siamese"}
Salaries == {0, 1}
Years == {-1, 0}
CreateNotes == {NoNotes}
UpdateNotes == {"a"}
TargetNames == {"Alice"}
Countries == {"FR"}

\* Request ids: every id that can be allocated and one that never is.
CatIds == 1..(MaxCats + 1)
MissionIds == 1..(MaxMissions + 1)
TargetIds == 1..(MaxTargets + 1)

\* str.lower() on the breed names of the model.
Lower(s) == IF s = "Siamese" THEN "siamese" ELSE IF s = "Dragon" THEN "dragon" ELSE s

VARIABLES fake_cats_db, fake_missions_db, fake_targets_db,
          next_cat_id, next_mission_id, next_target_id,
          requests, running

vars == <<fake_cats_db, fake_missions_db, fake_targets_db,
          next_cat_id, next_mission_id, next_target_id,
          requests, running>>

\* The module globals of crud.py as one value.
Db == [cats |-> fake_cats_db, missions |-> fake_missions_db,
       targets |-> fake_targets_db, next_cat_id |-> next_cat_id,
       next_mission_id |-> next_mission_id, next_target_id |-> next_target_id]

\* A handler's outcome: the globals afterwards and the response status.
Result(db, code) == [db |-> db, status |-> code]

\* The globals become db.
Store(db) ==
    /\ fake_cats_db' = db.cats
    /\ fake_missions_db' = db.missions
    /\ fake_targets_db' = db.targets
    /\ next_cat_id' = db.next_cat_id
    /\ next_mission_id' = db.next_mission_id
    /\ next_target_id' = db.next_target_id

\* A request handled from its first line to its response without another
\* request in between: the globals become those of the handler's outcome.
Apply(result) ==
    /\ Store(result.db)
    /\ UNCHANGED <<requests, running>>

\* ---------------------------------------------------------------- helpers
\* dict.pop(key, None) on a store.
Pop(store, key) == [k \in DOMAIN store \ {key} |-> store[k]]

\* The elements of a sequence.
Range(seq) == {seq[i] : i \in 1..Len(seq)}

\* Mutant: get_mission keeps the targets that are still to be completed.
get_mission_drops_complete(db, mission_id) ==
    IF mission_id \in DOMAIN db.missions
    THEN [db EXCEPT !.missions[mission_id].targets =
              SelectSeq(@, LAMBDA t : t \in DOMAIN db.targets
                                      /\ ~db.targets[t].is_complete)]
    ELSE db

\* get_mission re-resolves mission.targets against fake_targets_db and stores
\* the result back on the mission: the globals after the call.
get_mission(db, mission_id) ==
    IF mission_id \in DOMAIN db.missions
    THEN [db EXCEPT !.missions[mission_id].targets =
              SelectSeq(@, LAMBDA t : t \in DOMAIN db.targets)]
    ELSE db

\* Mutant: any() in place of all().
any_target_complete(mission, targets) ==
    \E i \in 1..Len(mission.targets) : targets[mission.targets[i]].is_complete

\* all(t.is_complete for t in mission.targets)
all_targets_complete(mission, targets) ==
    \A i \in 1..Len(mission.targets) : targets[mission.targets[i]].is_complete

\* The assign-cat requests that may be in flight at once.
Slots == {1, 2}

\* The create-cat request that may wait for TheCatAPI while the other
\* requests are handled.
CreateSlots == {3}

\* A slot with no request in it.
Idle == [pc |-> "idle", mission_id |-> None, cat_id |-> None, status |-> 0]

\* reset_db_state, run at startup; no request has arrived.
Init ==
    /\ fake_cats_db = << >>
    /\ fake_missions_db = << >>
    /\ fake_targets_db = << >>
    /\ next_cat_id = 1
    /\ next_mission_id = 1
    /\ next_target_id = 1
    /\ requests = [r \in Slots \cup CreateSlots |-> Idle]
    /\ running = None

\* ---------------------------------------------------------------- cats
\* CatCreate bodies, valid or not.
CatCreate == [name : Names, years_of_experience : Years,
              breed : Breeds, salary : Salaries]

\* CatBase: years_of_experience Field(ge=0), salary Field(gt=0).
CatCreateValid(cat_in) == cat_in.years_of_experience >= 0 /\ cat_in.salary > 0

\* What client.get(THECATAPI_URL) / raise_for_status() / json() yield.
ApiReplies ==
    {[kind |-> "ok", breeds |-> b] : b \in SUBSET ApiBreeds}
    \cup {[kind |-> k, breeds |-> {}] : k \in {"RequestError", "HTTPStatusError"}}

\* any(b["name"].lower() == breed_to_validate.lower() for b in breeds_data)
BreedListed(breed, breeds) == \E b \in breeds : Lower(b) = Lower(breed)

\* validate_cat_breed_from_payload: 0 when the payload is returned, else the
\* status of the HTTPException that leaves the function. The 400 for an
\* unlisted breed is raised inside the try block, where `except Exception`
\* catches it and raises the 500 in its place.
validate_cat_breed_from_payload(breed, api) ==
    IF api.kind = "RequestError" THEN 503
    ELSE IF api.kind = "HTTPStatusError" THEN 502
    ELSE IF ~BreedListed(breed, api.breeds) THEN 500
    ELSE 0

\* any(c.name == cat_in.name and c.breed == cat_in.breed for c in fake_cats_db.values())
CatExists(cats, cat_in) ==
    \E c \in DOMAIN cats : cats[c].name = cat_in.name /\ cats[c].breed = cat_in.breed

\* Mutant: the id is len(fake_cats_db) + 1, so the id of a deleted cat returns.
create_cat_reuses_id(db, cat_in) ==
    IF CatExists(db.cats, cat_in)
    THEN Result(db, 409)
    ELSE Result([db EXCEPT
                   !.cats = [k \in DOMAIN @ \cup {Cardinality(DOMAIN @) + 1} |->
                       IF k = Cardinality(DOMAIN @) + 1
                       THEN [name |-> cat_in.name,
                             years_of_experience |-> cat_in.years_of_experience,
                             breed |-> cat_in.breed,
                             salary |-> cat_in.salary,
                             mission_id |-> None]
                       ELSE @[k]],
                   !.next_cat_id = @ + 1],
                201)

\* Mutant: the id is taken before the duplicate check.
create_cat_burns_id(db, cat_in) ==
    IF CatExists(db.cats, cat_in)
    THEN Result([db EXCEPT !.next_cat_id = @ + 1], 409)
    ELSE Result([db EXCEPT
                   !.cats = @ @@ (db.next_cat_id :>
                       [name |-> cat_in.name,
                        years_of_experience |-> cat_in.years_of_experience,
                        breed |-> cat_in.breed,
                        salary |-> cat_in.salary,
                        mission_id |-> None]),
                   !.next_cat_id = @ + 1],
                201)

\* crud.create_cat
create_cat(db, cat_in) ==
    IF CatExists(db.cats, cat_in)
    THEN Result(db, 409)
    ELSE Result([db EXCEPT
                   !.cats = @ @@ (db.next_cat_id :>
                       [name |-> cat_in.name,
                        years_of_experience |-> cat_in.years_of_experience,
                        breed |-> cat_in.breed,
                        salary |-> cat_in.salary,
                        mission_id |-> None]),
                   !.next_cat_id = @ + 1],
                201)

\* POST /cats: body validation, the breed dependency, then crud.create_cat.
create_spy_cat(db, cat_in, api) ==
    IF ~CatCreateValid(cat_in) THEN Result(db, 422)
    ELSE IF validate_cat_breed_from_payload(cat_in.breed, api) # 0
    THEN Result(db, validate_cat_breed_from_payload(cat_in.breed, api))
    ELSE create_cat(db, cat_in)

\* Mutant: a salary update takes the cat off its mission.
update_spy_cat_salary_frees_cat(db, cat_id, given, salary) ==
    IF given /\ ~(salary > 0) THEN Result(db, 422)
    ELSE IF ~given THEN Result(db, 400)
    ELSE IF cat_id \notin DOMAIN db.cats THEN Result(db, 404)
    ELSE Result([db EXCEPT !.cats[cat_id].salary = salary,
                           !.cats[cat_id].mission_id = None], 200)

\* PATCH /cats/{cat_id}/salary; CatUpdate.salary is Optional, Field(None, gt=0):
\* `given` is FALSE when the body leaves it out.
update_spy_cat_salary(db, cat_id, given, salary) ==
    IF given /\ ~(salary > 0) THEN Result(db, 422)
    ELSE IF ~given THEN Result(db, 400)
    ELSE IF cat_id \notin DOMAIN db.cats THEN Result(db, 404)
    ELSE Result([db EXCEPT !.cats[cat_id].salary = salary], 200)

\* Mutant: the active-mission check of delete_cat is missing.
delete_cat_never_refused(db, cat_id) == FALSE

\* crud.delete_cat, lines 58-61: TRUE when it raises the 400.
delete_cat_refused(db, cat_id) ==
    /\ cat_id \in DOMAIN db.cats
    /\ db.cats[cat_id].mission_id # None
    /\ db.cats[cat_id].mission_id \in DOMAIN db.missions
    /\ ~db.missions[db.cats[cat_id].mission_id].is_complete

\* DELETE /cats/{cat_id}
delete_spy_cat(db, cat_id) ==
    LET db1 == IF cat_id \in DOMAIN db.cats /\ db.cats[cat_id].mission_id # None
               THEN get_mission(db, db.cats[cat_id].mission_id)
               ELSE db
    IN
    IF delete_cat_refused(db1, cat_id) THEN Result(db1, 400)
    ELSE IF cat_id \notin DOMAIN db1.cats THEN Result(db1, 404)
    ELSE Result([db1 EXCEPT !.cats = Pop(@, cat_id)], 204)

\* ---------------------------------------------------------------- missions
TargetCreate == [name : TargetNames, country : Countries,
                 notes : CreateNotes, is_complete : BOOLEAN]
\* MissionCreate bodies that pass validation: 1 to 3 targets.
MissionCreate ==
    [is_complete : BOOLEAN,
     targets : UNION {[1..n -> TargetCreate] : n \in min_length..max_length}]

\* crud.create_mission, lines 70-81: the targets it stores.
create_targets(mission_in, first_id) ==
    [t \in first_id..(first_id + Len(mission_in.targets) - 1) |->
        [name |-> mission_in.targets[t - first_id + 1].name,
         country |-> mission_in.targets[t - first_id + 1].country,
         notes |-> mission_in.targets[t - first_id + 1].notes,
         is_complete |-> FALSE]]

\* crud.create_mission, lines 83-88: the mission it stores.
new_mission(mission_in, first_id) ==
    [targets |-> [i \in 1..Len(mission_in.targets) |-> first_id + i - 1],
     is_complete |-> FALSE,
     cat_id |-> None]

\* MissionCreate.targets: List[TargetCreate] = Field(..., min_length=1, max_length=3)
MissionCreateValid(mission_in) ==
    /\ Len(mission_in.targets) >= min_length
    /\ Len(mission_in.targets) <= max_length

\* POST /missions: body validation, then crud.create_mission
create_new_mission(db, mission_in) ==
    IF ~MissionCreateValid(mission_in) THEN Result(db, 422) ELSE
    Result([db EXCEPT
              !.targets = @ @@ create_targets(mission_in, db.next_target_id),
              !.next_target_id = @ + Len(mission_in.targets),
              !.missions = @ @@ (db.next_mission_id :>
                                   new_mission(mission_in, db.next_target_id)),
              !.next_mission_id = @ + 1],
           201)

\* Mutant: the cat's current mission is not looked at.
cat_never_on_active_mission(db, cat_id) == FALSE

\* crud.assign_cat_to_mission, lines 131-135: the cat is on an active mission.
cat_on_active_mission(db, cat_id) ==
    /\ db.cats[cat_id].mission_id # None
    /\ db.cats[cat_id].mission_id \in DOMAIN db.missions
    /\ ~db.missions[db.cats[cat_id].mission_id].is_complete

\* Mutant: a cat with any mission reference is refused, complete or not.
assign_cat_error_any_link(db, mission_id, cat_id) ==
    IF mission_id \notin DOMAIN db.missions THEN 404
    ELSE IF cat_id \notin DOMAIN db.cats THEN 404
    ELSE IF db.missions[mission_id].cat_id # None THEN 409
    ELSE IF db.cats[cat_id].mission_id # None THEN 409
    ELSE 0

\* crud.assign_cat_to_mission, lines 124-135: the status of the exception it
\* raises, 0 when it raises none.
assign_cat_error(db, mission_id, cat_id) ==
    IF mission_id \notin DOMAIN db.missions THEN 404
    ELSE IF cat_id \notin DOMAIN db.cats THEN 404
    ELSE IF db.missions[mission_id].cat_id # None THEN 409
    ELSE IF cat_on_active_mission(db, cat_id) THEN 409
    ELSE 0

\* Mutant: an assignment reopens the mission.
link_reopens(db, mission_id, cat_id) ==
    [db EXCEPT !.missions[mission_id].cat_id = cat_id,
               !.missions[mission_id].is_complete = FALSE,
               !.cats[cat_id].mission_id = mission_id]

\* crud.assign_cat_to_mission, lines 137-138: both sides of the link.
link(db, mission_id, cat_id) ==
    [db EXCEPT !.missions[mission_id].cat_id = cat_id,
               !.cats[cat_id].mission_id = mission_id]

\* POST /missions/{mission_id}/assign-cat
assign_cat_to_a_mission(db, mission_id, cat_id) ==
    LET db1 == get_mission(db, mission_id)
        db2 == IF /\ mission_id \in DOMAIN db1.missions
                  /\ cat_id \in DOMAIN db1.cats
                  /\ db1.missions[mission_id].cat_id = None
                  /\ db1.cats[cat_id].mission_id # None
               THEN get_mission(db1, db1.cats[cat_id].mission_id)
               ELSE db1
    IN
    IF assign_cat_error(db2, mission_id, cat_id) # 0
    THEN Result(db2, assign_cat_error(db2, mission_id, cat_id))
    ELSE Result(link(db2, mission_id, cat_id), 200)

\* ---------------------------------------------------------------- targets
\* `target in mission.targets`, for the stored target with this id
InMission(mission, target_id) == target_id \in Range(mission.targets)

\* Mutant: only the mission's completion is checked, not the target's.
update_target_notes_error_mission_only(db, mission_id, target_id) ==
    IF mission_id \notin DOMAIN db.missions THEN 404
    ELSE IF db.missions[mission_id].is_complete THEN 400
    ELSE IF target_id \notin DOMAIN db.targets
            \/ target_id \notin Range(db.missions[mission_id].targets) THEN 404
    ELSE 0

\* crud.update_target_notes, lines 143-152: the status of the exception it
\* raises, 0 when it raises none.
update_target_notes_error(db, mission_id, target_id) ==
    IF mission_id \notin DOMAIN db.missions THEN 404
    ELSE IF db.missions[mission_id].is_complete THEN 400
    ELSE IF target_id \notin DOMAIN db.targets
            \/ ~InMission(db.missions[mission_id], target_id) THEN 404
    ELSE IF db.targets[target_id].is_complete THEN 400
    ELSE 0

\* PATCH /missions/{mission_id}/targets/{target_id}/notes
update_mission_target_notes(db, mission_id, target_id, notes) ==
    LET db1 == get_mission(db, mission_id) IN
    IF update_target_notes_error(db1, mission_id, target_id) # 0
    THEN Result(db1, update_target_notes_error(db1, mission_id, target_id))
    ELSE Result([db1 EXCEPT !.targets[target_id].notes = notes], 200)

\* Mutant: a complete target is refused, as update_target_notes refuses it.
mark_target_complete_error_strict(db, mission_id, target_id) ==
    IF mission_id \notin DOMAIN db.missions THEN 404
    ELSE IF db.missions[mission_id].is_complete THEN 400
    ELSE IF target_id \notin DOMAIN db.targets
            \/ target_id \notin Range(db.missions[mission_id].targets) THEN 404
    ELSE IF db.targets[target_id].is_complete THEN 400
    ELSE 0

\* crud.mark_target_complete, lines 159-167: the status of the exception it
\* raises, 0 when it raises none.
mark_target_complete_error(db, mission_id, target_id) ==
    IF mission_id \notin DOMAIN db.missions THEN 404
    ELSE IF db.missions[mission_id].is_complete THEN 400
    ELSE IF target_id \notin DOMAIN db.targets
            \/ ~InMission(db.missions[mission_id], target_id) THEN 404
    ELSE 0

\* Mutant: the cat keeps its mission reference.
free_no_cat(db, mission_id) == db

\* Mutant: every cat is taken off its mission.
free_all_cats(db, mission_id) ==
    [db EXCEPT !.cats = [c \in DOMAIN @ |-> [@[c] EXCEPT !.mission_id = None]]]

\* crud.mark_target_complete, lines 180-181: the cat of the mission is freed.
free_cat(db, mission_id) ==
    IF /\ db.missions[mission_id].cat_id # None
       /\ db.missions[mission_id].cat_id \in DOMAIN db.cats
    THEN [db EXCEPT !.cats[db.missions[mission_id].cat_id].mission_id = None]
    ELSE db

\* Mutant: completion clears the mission's side of the link as well.
complete_mission_clears_link(db, mission_id) ==
    IF all_targets_complete(db.missions[mission_id], db.targets)
    THEN [free_cat([db EXCEPT !.missions[mission_id].is_complete = TRUE], mission_id)
            EXCEPT !.missions[mission_id].cat_id = None]
    ELSE db

\* crud.mark_target_complete, lines 176-181: the mission follows its targets.
complete_mission(db, mission_id) ==
    IF all_targets_complete(db.missions[mission_id], db.targets)
    THEN free_cat([db EXCEPT !.missions[mission_id].is_complete = TRUE], mission_id)
    ELSE db

\* PATCH /missions/{mission_id}/targets/{target_id}/complete
mark_mission_target_complete(db, mission_id, target_id) ==
    LET db1 == get_mission(db, mission_id) IN
    IF mark_target_complete_error(db1, mission_id, target_id) # 0
    THEN Result(db1, mark_target_complete_error(db1, mission_id, target_id))
    ELSE IF db1.targets[target_id].is_complete
    THEN Result(db1, 200)
    ELSE Result(complete_mission([db1 EXCEPT !.targets[target_id].is_complete = TRUE],
                                 mission_id),
                200)

\* crud.delete_mission, lines 190-195: TRUE when it raises the 400.
delete_mission_refused(db, mission_id) ==
    /\ db.missions[mission_id].cat_id # None
    /\ db.missions[mission_id].cat_id \in DOMAIN db.cats
    /\ db.cats[db.missions[mission_id].cat_id].mission_id = mission_id
    /\ ~db.missions[mission_id].is_complete

\* Mutant: the mission goes, its targets stay.
remove_mission_keep_targets(db, mission_id) ==
    [db EXCEPT !.missions = Pop(@, mission_id)]

\* crud.delete_mission, lines 198-202: the targets go, then the mission.
remove_mission(db, mission_id) ==
    [db EXCEPT
       !.targets = [t \in DOMAIN @ \ Range(db.missions[mission_id].targets) |-> @[t]],
       !.missions = Pop(@, mission_id)]

\* DELETE /missions/{mission_id}
delete_a_mission(db, mission_id) ==
    LET db1 == get_mission(db, mission_id) IN
    IF mission_id \notin DOMAIN db1.missions THEN Result(db1, 404)
    ELSE IF delete_mission_refused(db1, mission_id) THEN Result(db1, 400)
    ELSE Result(remove_mission(db1, mission_id), 204)

\* ---------------------------------------------------------------- listings
\* The keys of a store in the order the dict holds them. A dict iterates in
\* insertion order; every key is inserted once, under the counter's value,
\* which only grows, so insertion order is ascending key order.
RECURSIVE Keys(_)
Keys(ids) ==
    IF ids = {} THEN << >>
    ELSE LET k == CHOOSE x \in ids : \A y \in ids : x <= y
         IN <<k>> \o Keys(ids \ {k})

\* list(store.values()): each entity with its id field.
Values(store) ==
    LET keys == Keys(DOMAIN store)
    IN [i \in 1..Len(keys) |-> [id |-> keys[i], item |-> store[keys[i]]]]

\* Mutant: seq[skip : limit]
SliceToLimit(seq, skip, limit) ==
    SubSeq(seq, skip + 1, IF limit < Len(seq) THEN limit ELSE Len(seq))

\* seq[skip : skip + limit], for skip >= 0 and limit >= 0
Slice(seq, skip, limit) ==
    SubSeq(seq, skip + 1, IF skip + limit < Len(seq) THEN skip + limit ELSE Len(seq))

\* A listing's outcome: the globals afterwards, the status and the body.
Listing(db, body) == [db |-> db, status |-> 200, body |-> body]

\* GET /cats -> crud.get_cats
list_spy_cats(db, skip, limit) == Listing(db, Slice(Values(db.cats), skip, limit))

\* crud.get_missions, lines 112-117: the targets of each mission of the page
\* are re-resolved, as get_mission does.
RECURSIVE refresh(_, _)
refresh(db, page) ==
    IF page = << >> THEN db
    ELSE refresh(get_mission(db, Head(page).id), Tail(page))

\* GET /missions -> crud.get_missions
list_all_missions(db, skip, limit) ==
    LET page == Slice(Values(db.missions), skip, limit)
        db1 == refresh(db, page)
    IN Listing(db1, [i \in 1..Len(page) |->
                       [id |-> page[i].id, item |-> db1.missions[page[i].id]]])

\* skip and limit values of the listing requests the system takes; a listing
\* changes nothing, and C18 looks at every page in every state.
ListArgs == 0..1

\* ---------------------------------------------------------------- system
\* The requests carry the ids the counters can hand out; an id not handed out
\* yet, or deleted since, is one that is not in the store.
\* POST /cats, first turn: the body is validated (422, nothing changes) and
\* validate_cat_breed_from_payload runs up to `await client.get(THECATAPI_URL)`
\* (dependencies.py lines 16-19), where the task waits for the reply.
CreateCatL19(r) ==
    /\ running = None
    /\ requests[r] = Idle
    /\ next_cat_id <= MaxCats
    /\ \E cat_in \in CatCreate :
          requests' = IF ~CatCreateValid(cat_in) THEN requests
                      ELSE [requests EXCEPT ![r] =
                               [pc |-> "v19", mission_id |-> None, cat_id |-> None,
                                status |-> 0, cat_in |-> cat_in, seen |-> 0]]
    /\ UNCHANGED <<fake_cats_db, fake_missions_db, fake_targets_db,
                   next_cat_id, next_mission_id, next_target_id, running>>

\* POST /cats, second turn: the reply arrives; the validator returns the
\* payload (status 0) or raises (dependencies.py lines 20-39), and leaving the
\* `async with` block (line 17) the task waits for the client to close. A
\* task whose validator raised carries the exception and no payload.
CreateCatL20(r) ==
    /\ running = None
    /\ requests[r].pc = "v19"
    /\ \E api \in ApiReplies :
          LET raised == validate_cat_breed_from_payload(requests[r].cat_in.breed, api) IN
          requests' = [requests EXCEPT
              ![r].pc = "vexit",
              ![r].status = raised,
              ![r].cat_in = IF raised # 0 THEN None ELSE @]
    /\ UNCHANGED <<fake_cats_db, fake_missions_db, fake_targets_db,
                   next_cat_id, next_mission_id, next_target_id, running>>

\* POST /cats, third turn: the validator's exception becomes the response, or
\* create_spy_cat (routers/cats.py line 25) runs crud.create_cat (crud.py
\* lines 27-42) on the stores as they are now, and the task ends.
CreateCatL25(r) ==
    /\ running = None
    /\ requests[r].pc = "vexit"
    /\ Store(IF requests[r].status # 0 THEN Db
             ELSE create_cat(Db, requests[r].cat_in).db)
    /\ requests' = [requests EXCEPT ![r] = Idle]
    /\ UNCHANGED running

\* One turn of a create-cat request.
CreateCat ==
    \E r \in CreateSlots : CreateCatL19(r) \/ CreateCatL20(r) \/ CreateCatL25(r)
UpdateSalary ==
    \E cat_id \in 1..MaxCats, given \in BOOLEAN, salary \in Salaries :
        Apply(update_spy_cat_salary(Db, cat_id, given, salary))
DeleteCat == \E cat_id \in 1..MaxCats : Apply(delete_spy_cat(Db, cat_id))
CreateMission ==
    /\ next_mission_id <= MaxMissions
    /\ \E mission_in \in MissionCreate :
          /\ next_target_id + Len(mission_in.targets) - 1 <= MaxTargets
          /\ Apply(create_new_mission(Db, mission_in))
AssignCat ==
    \E mission_id \in 1..MaxMissions, cat_id \in 1..MaxCats :
        Apply(assign_cat_to_a_mission(Db, mission_id, cat_id))
UpdateTargetNotes ==
    \E mission_id \in 1..MaxMissions, target_id \in 1..MaxTargets, notes \in UpdateNotes :
        Apply(update_mission_target_notes(Db, mission_id, target_id, notes))
MarkTargetComplete ==
    \E mission_id \in 1..MaxMissions, target_id \in 1..MaxTargets :
        Apply(mark_mission_target_complete(Db, mission_id, target_id))
DeleteMission == \E mission_id \in 1..MaxMissions : Apply(delete_a_mission(Db, mission_id))
ListCats == \E skip \in ListArgs, limit \in ListArgs : Apply(list_spy_cats(Db, skip, limit))
ListMissions ==
    \E skip \in ListArgs, limit \in ListArgs : Apply(list_all_missions(Db, skip, limit))

Next ==
    \/ CreateCat
    \/ UpdateSalary
    \/ DeleteCat
    \/ CreateMission
    \/ AssignCat
    \/ UpdateTargetNotes
    \/ MarkTargetComplete
    \/ DeleteMission
    \/ ListCats
    \/ ListMissions

Spec == Init /\ [][Next]_vars

\* ---------------------------------------------------------------- salaries
\* The requests that make and move cats through their missions, with salary
\* updates to values other than the one a cat was created with.
SalaryUpdates == Salaries \cup {-1, 2}

UpdateSalaryTo ==
    \E cat_id \in 1..MaxCats, given \in BOOLEAN, salary \in SalaryUpdates :
        Apply(update_spy_cat_salary(Db, cat_id, given, salary))

NextSalary ==
    \/ CreateCat
    \/ UpdateSalaryTo
    \/ DeleteCat
    \/ CreateMission
    \/ AssignCat
    \/ MarkTargetComplete
    \/ DeleteMission

SpecSalary == Init /\ [][NextSalary]_vars

\* ---------------------------------------------------------------- concurrency
\* Requests are tasks of one event loop: a task runs until it suspends, and
\* only then may another run. `running` is the task that holds the loop.
\* A task waiting for its request body is suspended; inside
\* crud.assign_cat_to_mission every await is of a coroutine of crud.py
\* that returns without suspending.

\* Mutant: every await of assign_cat_to_mission hands the loop over.
AwaitSuspends(pc) == pc \in {"received", "l122", "l124", "l134"}

\* Mutant: create_cat hands the loop over between its duplicate check and
\* its insertion.
SuspendsInCreateCat(pc) == pc \in {"received", "posted", "v19", "vexit", "c32"}

\* TRUE when a task that has reached pc is suspended there: waiting for its
\* request body ("received", "posted"), and in validate_cat_breed_from_payload
\* waiting for TheCatAPI's response ("v19") and for the client to close
\* when the `async with` block is left ("vexit").
Suspends(pc) == pc \in {"received", "posted", "v19", "vexit"}

\* Task r may take its next step.
Runnable(r) ==
    \/ running = r
    \/ running = None /\ requests[r].pc \notin {"idle", "done"}
                      /\ Suspends(requests[r].pc)

\* Task r moves to pc; it keeps the loop unless it suspends there.
Goto(r, pc) ==
    /\ requests' = [requests EXCEPT ![r].pc = pc]
    /\ running' = IF Suspends(pc) THEN None ELSE r

\* Task r ends with this status.
Respond(r, code) ==
    /\ requests' = [requests EXCEPT ![r].pc = "done", ![r].status = code]
    /\ running' = None

\* Two assign-cat requests, for the same mission or for the same cat, arrive
\* together. Either may run first, so the one with the smaller mission id,
\* or with the smaller cat id for one mission, is put in slot 1; the ids are
\* those the counters can hand out.
Arrive ==
    /\ running = None
    /\ \A r \in Slots : requests[r] = Idle
    /\ \E m1, m2 \in 1..MaxMissions, c1, c2 \in 1..MaxCats :
          /\ m1 = m2 \/ c1 = c2
          /\ m1 < m2 \/ (m1 = m2 /\ c1 <= c2)
          /\ requests' = [r \in DOMAIN requests |->
                 IF r \notin Slots THEN requests[r]
                 ELSE [pc |-> "received",
                       mission_id |-> IF r = 1 THEN m1 ELSE m2,
                       cat_id |-> IF r = 1 THEN c1 ELSE c2,
                       status |-> 0]]
    /\ UNCHANGED <<fake_cats_db, fake_missions_db, fake_targets_db,
                   next_cat_id, next_mission_id, next_target_id, running>>

\* line 121: mission = await get_mission(mission_id)
AssignL121(r) ==
    /\ requests[r].pc = "received"
    /\ Runnable(r)
    /\ Store(get_mission(Db, requests[r].mission_id))
    /\ Goto(r, "l122")

\* line 122: cat = await get_cat(cat_id)
AssignL122(r) ==
    /\ requests[r].pc = "l122"
    /\ Runnable(r)
    /\ Store(Db)
    /\ Goto(r, "l124")

\* lines 124-131: the not-found checks, the mission's cat reference, and
\* whether the cat has a mission reference to look up.
AssignL124(r) ==
    /\ requests[r].pc = "l124"
    /\ Runnable(r)
    /\ Store(Db)
    /\ LET m == requests[r].mission_id
           c == requests[r].cat_id
       IN
       IF m \notin DOMAIN fake_missions_db THEN Respond(r, 404)
       ELSE IF c \notin DOMAIN fake_cats_db THEN Respond(r, 404)
       ELSE IF fake_missions_db[m].cat_id # None THEN Respond(r, 409)
       ELSE IF fake_cats_db[c].mission_id # None THEN Goto(r, "l133")
       ELSE Goto(r, "l137")

\* line 133: assigned_mission = await get_mission(cat.mission_id)
AssignL133(r) ==
    /\ requests[r].pc = "l133"
    /\ Runnable(r)
    /\ Store(get_mission(Db, fake_cats_db[requests[r].cat_id].mission_id))
    /\ Goto(r, "l134")

\* lines 134-135: the cat's mission is stored and incomplete
AssignL134(r) ==
    /\ requests[r].pc = "l134"
    /\ Runnable(r)
    /\ Store(Db)
    /\ IF cat_on_active_mission(Db, requests[r].cat_id)
       THEN Respond(r, 409)
       ELSE Goto(r, "l137")

\* line 137: mission.cat_id = cat_id
AssignL137(r) ==
    /\ requests[r].pc = "l137"
    /\ Runnable(r)
    /\ Store([Db EXCEPT !.missions[requests[r].mission_id].cat_id = requests[r].cat_id])
    /\ Goto(r, "l138")

\* lines 138-139: cat.mission_id = mission_id; return mission
AssignL138(r) ==
    /\ requests[r].pc = "l138"
    /\ Runnable(r)
    /\ Store([Db EXCEPT !.cats[requests[r].cat_id].mission_id = requests[r].mission_id])
    /\ Respond(r, 200)

\* The other requests the application serves meanwhile. A create-cat
\* request takes its three turns, each when the loop is free; every other
\* request runs to its response in one turn once its body is read, so it
\* needs the loop free.
ConcurrentCreateCat == running = None /\ CreateCat
ConcurrentUpdateSalary == running = None /\ UpdateSalary
ConcurrentCreateMission == running = None /\ CreateMission
ConcurrentAssignCat == running = None /\ AssignCat
ConcurrentUpdateTargetNotes == running = None /\ UpdateTargetNotes
ConcurrentMarkTargetComplete == running = None /\ MarkTargetComplete
ConcurrentDeleteMission == running = None /\ DeleteMission
\* A delete-cat request; it runs to its response without suspending.
ConcurrentDeleteCat == running = None /\ DeleteCat

NextConcurrent ==
    \/ ConcurrentCreateCat
    \/ ConcurrentUpdateSalary
    \/ ConcurrentDeleteCat
    \/ ConcurrentCreateMission
    \/ ConcurrentAssignCat
    \/ ConcurrentUpdateTargetNotes
    \/ ConcurrentMarkTargetComplete
    \/ ConcurrentDeleteMission
    \/ Arrive
    \/ \E r \in Slots : AssignL121(r)
    \/ \E r \in Slots : AssignL122(r)
    \/ \E r \in Slots : AssignL124(r)
    \/ \E r \in Slots : AssignL133(r)
    \/ \E r \in Slots : AssignL134(r)
    \/ \E r \in Slots : AssignL137(r)
    \/ \E r \in Slots : AssignL138(r)

SpecConcurrent == Init /\ [][NextConcurrent]_vars

\* ---------------------------------------------------------------- concurrent create-cat
\* The create-cat bodies that pass validation.
CreateRequests == {cat_in \in CatCreate : CatCreateValid(cat_in)}

\* Create-cat requests arrive together, one per slot. `seen` keeps, for the
\* claims, the value of next_cat_id when the request's breed validation
\* ended; `cat_id` becomes the id of the cat in the response.
ArriveCreate ==
    /\ running = None
    /\ \A r \in Slots : requests[r] = Idle
    /\ \E bodies \in [Slots -> CreateRequests] :
          requests' = [r \in DOMAIN requests |->
              IF r \notin Slots THEN requests[r]
              ELSE [pc |-> "posted", mission_id |-> None, cat_id |-> None,
                    status |-> 0, cat_in |-> bodies[r], seen |-> 0]]
    /\ UNCHANGED <<fake_cats_db, fake_missions_db, fake_targets_db,
                   next_cat_id, next_mission_id, next_target_id, running>>

\* dependencies.py lines 16-19: the dependency runs up to
\* `await client.get(THECATAPI_URL)`.
ValidateL19(r) ==
    /\ requests[r].pc = "posted"
    /\ Runnable(r)
    /\ Store(Db)
    /\ Goto(r, "v19")

\* dependencies.py lines 19-43: the reply arrives; the validator returns the
\* payload (0) or raises, and the `async with` block is left.
ValidateL20(r) ==
    /\ requests[r].pc = "v19"
    /\ Runnable(r)
    /\ Store(Db)
    /\ \E api \in ApiReplies :
          requests' = [requests EXCEPT
              ![r].pc = "vexit",
              ![r].status = validate_cat_breed_from_payload(requests[r].cat_in.breed, api),
              ![r].seen = next_cat_id]
    /\ running' = IF Suspends("vexit") THEN None ELSE r

\* The client is closed: the exception reaches the caller, or
\* create_spy_cat (routers/cats.py line 25) calls crud.create_cat.
ValidateExit(r) ==
    /\ requests[r].pc = "vexit"
    /\ Runnable(r)
    /\ Store(Db)
    /\ IF requests[r].status # 0
       THEN Respond(r, requests[r].status)
       ELSE Goto(r, "c29")

\* crud.py lines 29-30: the duplicate check
CreateL29(r) ==
    /\ requests[r].pc = "c29"
    /\ Runnable(r)
    /\ Store(Db)
    /\ IF CatExists(fake_cats_db, requests[r].cat_in)
       THEN Respond(r, 409)
       ELSE Goto(r, "c32")

\* crud.py lines 32-39: db_cat = models.Cat(id=next_cat_id, ...)
CreateL32(r) ==
    /\ requests[r].pc = "c32"
    /\ Runnable(r)
    /\ Store(Db)
    /\ requests' = [requests EXCEPT ![r].pc = "c40", ![r].cat_id = next_cat_id]
    /\ running' = IF Suspends("c40") THEN None ELSE r

\* crud.py line 40: fake_cats_db[next_cat_id] = db_cat
CreateL40(r) ==
    /\ requests[r].pc = "c40"
    /\ Runnable(r)
    /\ Store([Db EXCEPT !.cats =
          [k \in DOMAIN @ \cup {next_cat_id} |->
              IF k = next_cat_id
              THEN [name |-> requests[r].cat_in.name,
                    years_of_experience |-> requests[r].cat_in.years_of_experience,
                    breed |-> requests[r].cat_in.breed,
                    salary |-> requests[r].cat_in.salary,
                    mission_id |-> None]
              ELSE @[k]]])
    /\ Goto(r, "c41")

\* crud.py lines 41-42: next_cat_id += 1; return db_cat
CreateL41(r) ==
    /\ requests[r].pc = "c41"
    /\ Runnable(r)
    /\ Store([Db EXCEPT !.next_cat_id = @ + 1])
    /\ Respond(r, 201)

NextCreateCat ==
    \/ ArriveCreate
    \/ \E r \in Slots : ValidateL19(r)
    \/ \E r \in Slots : ValidateL20(r)
    \/ \E r \in Slots : ValidateExit(r)
    \/ \E r \in Slots : CreateL29(r)
    \/ \E r \in Slots : CreateL32(r)
    \/ \E r \in Slots : CreateL40(r)
    \/ \E r \in Slots : CreateL41(r)
    \/ ConcurrentDeleteCat

SpecCreateCat == Init /\ [][NextCreateCat]_vars

\* ================================================================ claims
\* The targets a stored mission owns.
Owned(mission_id) == Range(fake_missions_db[mission_id].targets)

\* C1: every stored mission's completion flag equals the conjunction of the
\* completion flags of the targets it owns, and whatever flags a creation
\* body carries, the mission it creates and its targets are incomplete.
C1_MissionCompletionDerived ==
    /\ \A m \in DOMAIN fake_missions_db :
          fake_missions_db[m].is_complete =
              (\A t \in Owned(m) : t \in DOMAIN fake_targets_db
                                   /\ fake_targets_db[t].is_complete)
    /\ \A mission_in \in MissionCreate :
          LET r == create_new_mission(Db, mission_in) IN
          /\ r.status = 201
          /\ ~r.db.missions[next_mission_id].is_complete
          /\ \A t \in Range(r.db.missions[next_mission_id].targets) :
                ~r.db.targets[t].is_complete

\* A mission of two targets that has been completed target by target.
C1_Witness ==
    \E m \in DOMAIN fake_missions_db :
        /\ Cardinality(Owned(m)) = 2
        /\ fake_missions_db[m].is_complete
        /\ \A t \in Owned(m) : fake_targets_db[t].is_complete

\* C2: a cat's mission reference, if set, names a stored mission whose cat
\* reference is this cat.
C2_CatLinkSymmetric ==
    \A c \in DOMAIN fake_cats_db :
        fake_cats_db[c].mission_id # None =>
            /\ fake_cats_db[c].mission_id \in DOMAIN fake_missions_db
            /\ fake_missions_db[fake_cats_db[c].mission_id].cat_id = c

\* C3 as stated: after a successful mark-target-complete, the same call again
\* succeeds and changes nothing, for every target of every mission.
C3_SecondCallSucceeds ==
    \A m \in DOMAIN fake_missions_db : \A t \in Owned(m) :
        LET first == mark_mission_target_complete(Db, m, t)
            second == mark_mission_target_complete(first.db, m, t)
        IN first.status = 200 => second.status = 200 /\ second.db = first.db

\* C3 as amended: the second call changes nothing; it answers 200 while the
\* mission is still incomplete after the first call, and 400 when the first
\* call completed the mission.
C3_SecondCallChangesNothing ==
    \A m \in DOMAIN fake_missions_db : \A t \in Owned(m) :
        LET first == mark_mission_target_complete(Db, m, t)
            second == mark_mission_target_complete(first.db, m, t)
        IN first.status = 200 =>
              /\ second.db = first.db
              /\ second.status = IF first.db.missions[m].is_complete THEN 400 ELSE 200

\* A target has been completed in a mission that is still incomplete, and
\* completing it again answers 200 and changes nothing.
C3_Witness ==
    \E m \in DOMAIN fake_missions_db : \E t \in Owned(m) :
        /\ fake_targets_db[t].is_complete
        /\ ~fake_missions_db[m].is_complete
        /\ mark_mission_target_complete(Db, m, t) = Result(Db, 200)

\* C4: an incomplete mission with a cat reference names a stored cat that
\* points back to it; so no cat is the cat of two incomplete missions.
C4_ActiveMissionLinked ==
    /\ \A m \in DOMAIN fake_missions_db :
          (~fake_missions_db[m].is_complete /\ fake_missions_db[m].cat_id # None) =>
              /\ fake_missions_db[m].cat_id \in DOMAIN fake_cats_db
              /\ fake_cats_db[fake_missions_db[m].cat_id].mission_id = m
    /\ \A m1, m2 \in DOMAIN fake_missions_db :
          (/\ ~fake_missions_db[m1].is_complete
           /\ ~fake_missions_db[m2].is_complete
           /\ fake_missions_db[m1].cat_id # None
           /\ fake_missions_db[m1].cat_id = fake_missions_db[m2].cat_id) => m1 = m2

\* A cat serves its second mission, the first one completed: two missions
\* carry its id and one of them is active.
C4_Witness ==
    \E m1, m2 \in DOMAIN fake_missions_db :
        /\ m1 # m2
        /\ fake_missions_db[m1].cat_id # None
        /\ fake_missions_db[m1].cat_id = fake_missions_db[m2].cat_id
        /\ fake_missions_db[m1].is_complete
        /\ ~fake_missions_db[m2].is_complete

\* C5: with cat c assigned to mission m1, assigning c to another stored
\* mission m2 answers 409 and changes nothing while m1 is incomplete; once m1
\* is complete (c's own reference is m1 still, or cleared) and m2 has no cat,
\* it answers 200 and links m2 and c to each other.
C5_SecondAssignment ==
    \A c \in DOMAIN fake_cats_db : \A m1, m2 \in DOMAIN fake_missions_db :
        (m1 # m2 /\ fake_missions_db[m1].cat_id = c) =>
            LET r == assign_cat_to_a_mission(Db, m2, c) IN
            /\ ~fake_missions_db[m1].is_complete => r = Result(Db, 409)
            /\ (/\ fake_missions_db[m1].is_complete
                /\ fake_cats_db[c].mission_id \in {m1, None}
                /\ fake_missions_db[m2].cat_id = None) =>
                   /\ r.status = 200
                   /\ r.db.missions[m2].cat_id = c
                   /\ r.db.cats[c].mission_id = m2

\* The cat of a completed mission has been assigned to a second mission.
C5_Witness ==
    \E c \in DOMAIN fake_cats_db : \E m1, m2 \in DOMAIN fake_missions_db :
        /\ m1 # m2
        /\ fake_missions_db[m1].cat_id = c
        /\ fake_missions_db[m1].is_complete
        /\ fake_missions_db[m2].cat_id = c
        /\ fake_cats_db[c].mission_id = m2

\* C6: a mission whose targets are all complete is complete, and one with an
\* incomplete target is incomplete with its cat, if any, pointing to it; the
\* successful mark-target-complete that leaves every target of the mission
\* complete makes the mission complete and clears the mission reference of
\* the mission's cat, and one that leaves a target incomplete leaves the
\* mission incomplete and its cat pointing to it.
C6_LastTargetCompletesMission ==
    /\ \A m \in DOMAIN fake_missions_db :
          LET cat == fake_missions_db[m].cat_id IN
          IF \A u \in Owned(m) : fake_targets_db[u].is_complete
          THEN fake_missions_db[m].is_complete
          ELSE /\ ~fake_missions_db[m].is_complete
               /\ cat # None => fake_cats_db[cat].mission_id = m
    /\ \A m \in DOMAIN fake_missions_db : \A t \in Owned(m) :
        LET r == mark_mission_target_complete(Db, m, t)
            cat == fake_missions_db[m].cat_id
            all_done == \A u \in Owned(m) : r.db.targets[u].is_complete
        IN r.status = 200 =>
              /\ r.db.targets[t].is_complete
              /\ all_done =>
                    /\ r.db.missions[m].is_complete
                    /\ cat # None => r.db.cats[cat].mission_id = None
              /\ ~all_done =>
                    /\ ~r.db.missions[m].is_complete
                    /\ cat # None => r.db.cats[cat].mission_id = m

\* A two-target mission with a cat has been completed and its cat is free.
C6_Witness ==
    \E m \in DOMAIN fake_missions_db :
        /\ Cardinality(Owned(m)) = 2
        /\ fake_missions_db[m].is_complete
        /\ fake_missions_db[m].cat_id \in DOMAIN fake_cats_db
        /\ fake_cats_db[fake_missions_db[m].cat_id].mission_id = None

\* C7: delete-mission answers 400 and removes nothing when the mission has a
\* cat that points back to it and is incomplete; on a complete or unassigned
\* mission it answers 204 and removes the mission and exactly its targets.
C7_DeleteMission ==
    \A m \in DOMAIN fake_missions_db :
        LET r == delete_a_mission(Db, m)
            cat == fake_missions_db[m].cat_id
        IN
        /\ (/\ cat # None
            /\ cat \in DOMAIN fake_cats_db
            /\ fake_cats_db[cat].mission_id = m
            /\ ~fake_missions_db[m].is_complete) => r = Result(Db, 400)
        /\ (fake_missions_db[m].is_complete \/ cat = None) =>
              /\ r.status = 204
              /\ r.db.missions = Pop(fake_missions_db, m)
              /\ DOMAIN r.db.targets = DOMAIN fake_targets_db \ Owned(m)
              /\ \A t \in DOMAIN r.db.targets : r.db.targets[t] = fake_targets_db[t]

\* Mission 1 has been deleted and the targets of the mission that is left
\* are all that the target store holds.
C7_Witness ==
    /\ next_mission_id > 1
    /\ 1 \notin DOMAIN fake_missions_db
    /\ \E m \in DOMAIN fake_missions_db :
          Owned(m) = DOMAIN fake_targets_db /\ next_target_id > 1 + Cardinality(Owned(m))

\* Notes texts an update-notes request may carry.
NotesTexts == UpdateNotes \cup {"b"}

\* C8, one request: update-notes on a target through its owning mission
\* answers 400 and changes nothing when the target or the mission is
\* complete, and otherwise answers 200 and the notes are the new text.
C8_UpdateNotes ==
    \A m \in DOMAIN fake_missions_db : \A t \in Owned(m) : \A notes \in NotesTexts :
        LET r == update_mission_target_notes(Db, m, t, notes) IN
        IF fake_targets_db[t].is_complete \/ fake_missions_db[m].is_complete
        THEN r = Result(Db, 400)
        ELSE /\ r.status = 200
             /\ r.db.targets[t].notes = notes
             /\ r.db = [Db EXCEPT !.targets[t].notes = notes]

\* C8, over time: no request changes the notes of a complete target that
\* stays in the store.
C8_CompleteNotesUnchanged ==
    \A t \in DOMAIN fake_targets_db \cap DOMAIN fake_targets_db' :
        fake_targets_db[t].is_complete =>
            fake_targets_db'[t].notes = fake_targets_db[t].notes

\* C8: update-notes is refused on a complete target or mission, so the notes
\* of a complete target never change; otherwise the notes are replaced.
C8_NotesFrozen == []C8_UpdateNotes /\ [][C8_CompleteNotesUnchanged]_vars

\* A target whose notes were updated has been completed, beside a target
\* whose notes were never written.
C8_Witness ==
    \E t1, t2 \in DOMAIN fake_targets_db :
        /\ fake_targets_db[t1].is_complete
        /\ fake_targets_db[t1].notes \in UpdateNotes
        /\ fake_targets_db[t2].is_complete
        /\ fake_targets_db[t2].notes = NoNotes

\* C9: delete-cat answers 400 and keeps the cat while its mission reference
\* names a stored incomplete mission; when a mark-target-complete completes
\* that mission the cat's reference is cleared and delete-cat then answers
\* 204 and removes the cat; on an id not in the store it answers 404.
C9_DeleteCat ==
    /\ \A c \in DOMAIN fake_cats_db :
          LET m == fake_cats_db[c].mission_id IN
          (m # None /\ m \in DOMAIN fake_missions_db /\ ~fake_missions_db[m].is_complete) =>
              /\ delete_spy_cat(Db, c) = Result(Db, 400)
              /\ \A t \in Owned(m) :
                    LET done == mark_mission_target_complete(Db, m, t) IN
                    (done.status = 200 /\ done.db.missions[m].is_complete) =>
                        /\ done.db.cats[c].mission_id = None
                        /\ delete_spy_cat(done.db, c) =
                               Result([done.db EXCEPT !.cats = Pop(@, c)], 204)
    /\ \A c \in CatIds \ DOMAIN fake_cats_db : delete_spy_cat(Db, c) = Result(Db, 404)

\* A cat that served a mission to completion has been deleted.
C9_Witness ==
    \E m \in DOMAIN fake_missions_db :
        /\ fake_missions_db[m].is_complete
        /\ fake_missions_db[m].cat_id # None
        /\ fake_missions_db[m].cat_id \notin DOMAIN fake_cats_db

\* C10: a well-formed create-cat request whose (name, breed) is that of a
\* stored cat answers 409 and stores nothing, whatever the breed service
\* replies.
C10_DuplicateBeforeValidation ==
    \A cat_in \in CatCreate : \A api \in ApiReplies :
        (CatCreateValid(cat_in) /\ CatExists(fake_cats_db, cat_in)) =>
            create_spy_cat(Db, cat_in, api) = Result(Db, 409)

\* C11: on a well-formed create-cat request, a breed the reference list lacks
\* answers 400, a request failure 503 and an error status of the service
\* 502; in all three cases no cat is stored and no id is consumed.
C11_RejectedDistinct ==
    \A cat_in \in CatCreate : \A api \in ApiReplies :
        CatCreateValid(cat_in) =>
            LET r == create_spy_cat(Db, cat_in, api) IN
            /\ (api.kind = "ok" /\ ~BreedListed(cat_in.breed, api.breeds)) =>
                   r = Result(Db, 400)
            /\ api.kind = "RequestError" => r = Result(Db, 503)
            /\ api.kind = "HTTPStatusError" => r = Result(Db, 502)

\* C12, one state: the ids in each store are below the store's counter; a
\* create-cat that answers 201 stores the cat under the counter's value and
\* advances the counter by one, and one that answers anything else changes
\* nothing; a mission of k targets is stored under the mission counter's
\* value with the k target ids that start at the target counter's value.
C12_Allocation ==
    /\ DOMAIN fake_cats_db \subseteq 1..(next_cat_id - 1)
    /\ DOMAIN fake_missions_db \subseteq 1..(next_mission_id - 1)
    /\ DOMAIN fake_targets_db \subseteq 1..(next_target_id - 1)
    /\ \A cat_in \in CatCreate : \A api \in ApiReplies :
          LET r == create_spy_cat(Db, cat_in, api) IN
          IF r.status = 201
          THEN /\ DOMAIN r.db.cats = DOMAIN fake_cats_db \cup {next_cat_id}
               /\ r.db.next_cat_id = next_cat_id + 1
          ELSE r.db = Db
    /\ \A mission_in \in MissionCreate :
          LET r == create_new_mission(Db, mission_in)
              k == Len(mission_in.targets)
          IN
          /\ r.status = 201
          /\ DOMAIN r.db.missions = DOMAIN fake_missions_db \cup {next_mission_id}
          /\ r.db.next_mission_id = next_mission_id + 1
          /\ r.db.missions[next_mission_id].targets =
                 [i \in 1..k |-> next_target_id + i - 1]
          /\ DOMAIN r.db.targets =
                 DOMAIN fake_targets_db \cup next_target_id..(next_target_id + k - 1)
          /\ r.db.next_target_id = next_target_id + k
          /\ r.db.next_cat_id = next_cat_id

\* C12, one step: no counter decreases, and the ids a step adds to a store
\* are exactly those from the counter's old value up to its new value.
C12_FreshIds ==
    /\ DOMAIN fake_cats_db' \ DOMAIN fake_cats_db = next_cat_id..(next_cat_id' - 1)
    /\ DOMAIN fake_missions_db' \ DOMAIN fake_missions_db =
           next_mission_id..(next_mission_id' - 1)
    /\ DOMAIN fake_targets_db' \ DOMAIN fake_targets_db =
           next_target_id..(next_target_id' - 1)
    /\ next_cat_id' >= next_cat_id
    /\ next_mission_id' >= next_mission_id
    /\ next_target_id' >= next_target_id

\* C12: the counters start at 1 and every id handed out is the next integer
\* of its kind, greater than every id handed out before, deletions or not.
C12_IdsNeverReused ==
    /\ next_cat_id = 1 /\ next_mission_id = 1 /\ next_target_id = 1
    /\ []C12_Allocation
    /\ [][C12_FreshIds]_vars

\* Cat 1 and mission 1 with its target have been deleted, and the cat and
\* the mission created afterwards carry the ids 2.
C12_Witness ==
    /\ DOMAIN fake_cats_db = {2}
    /\ DOMAIN fake_missions_db = {2}
    /\ DOMAIN fake_targets_db = {2}

\* C13, one step: a complete target that stays in the store stays complete,
\* and a complete mission that stays in the store stays complete.
C13_StaysComplete ==
    /\ \A t \in DOMAIN fake_targets_db \cap DOMAIN fake_targets_db' :
          fake_targets_db[t].is_complete => fake_targets_db'[t].is_complete
    /\ \A m \in DOMAIN fake_missions_db \cap DOMAIN fake_missions_db' :
          fake_missions_db[m].is_complete => fake_missions_db'[m].is_complete

\* C13: completion is monotonic for targets and for missions.
C13_CompletionMonotonic == [][C13_StaysComplete]_vars

\* A complete mission has since been given a cat and is complete still.
C13_Witness ==
    \E m \in DOMAIN fake_missions_db :
        /\ fake_missions_db[m].is_complete
        /\ fake_missions_db[m].cat_id \in DOMAIN fake_cats_db
        /\ fake_cats_db[fake_missions_db[m].cat_id].mission_id = m
        /\ \A t \in Owned(m) : fake_targets_db[t].is_complete

\* C14, one state: while a task stands between lines 137 and 138 of
\* assign_cat_to_mission (the mission's cat reference set, the cat's not yet)
\* or anywhere else inside it, that task holds the loop, so no other request
\* runs and sees the stores; and two concurrent requests for the same mission
\* have not both succeeded.
C14_NoHalfLink ==
    /\ \A r \in Slots :
          requests[r].pc \notin {"idle", "received", "done"} => running = r
    /\ \A r \in Slots :
          requests[r].pc = "l138" =>
              /\ running = r
              /\ requests[r].mission_id \in DOMAIN fake_missions_db
              /\ fake_missions_db[requests[r].mission_id].cat_id = requests[r].cat_id
    /\ \A r1, r2 \in Slots :
          (/\ r1 # r2
           /\ requests[r1].mission_id = requests[r2].mission_id
           /\ requests[r1].status = 200) => requests[r2].status # 200

\* C14 as stated, for the same cat: two concurrent requests for the same cat
\* have not both succeeded.
C14_SameCatNeverBoth ==
    \A r1, r2 \in Slots :
        (/\ r1 # r2
         /\ requests[r1].cat_id = requests[r2].cat_id
         /\ requests[r1].status = 200) => requests[r2].status # 200

\* C14 as amended, one step: when a request for a cat succeeds after a
\* concurrent request for the same cat has succeeded, the mission of the
\* earlier one is complete, or is no longer in the store.
C14_SecondOnlyAfterCompletion ==
    \A r1, r2 \in Slots :
        (/\ r1 # r2
         /\ requests[r1].cat_id = requests[r2].cat_id
         /\ requests[r1].status = 200
         /\ requests[r2].status # 200
         /\ requests'[r2].status = 200) =>
            /\ requests[r1].mission_id # requests[r2].mission_id
            /\ \/ requests[r1].mission_id \notin DOMAIN fake_missions_db
               \/ fake_missions_db[requests[r1].mission_id].is_complete

\* C14 as amended, one step: the mission of a request that succeeded leaves
\* the store only when it is complete.
C14_DeletedOnlyComplete ==
    \A r \in Slots :
        (/\ requests[r].status = 200
         /\ requests[r].mission_id \in DOMAIN fake_missions_db
         /\ requests[r].mission_id \notin DOMAIN fake_missions_db') =>
            fake_missions_db[requests[r].mission_id].is_complete

\* C14 as amended: no request observes a half-set link, two concurrent
\* assign-cat requests for the same mission never both succeed, and two for
\* the same cat both succeed only when the mission of the first is complete
\* by the time the second is decided, or was deleted after it became
\* complete.
C14_AssignAtomic ==
    /\ []C14_NoHalfLink
    /\ [][C14_SecondOnlyAfterCompletion]_vars
    /\ [][C14_DeletedOnlyComplete]_vars

\* Two concurrent requests for the same incomplete mission, with two cats:
\* one has linked mission and cat to each other, the other answered 409.
C14_Witness ==
    \E r1, r2 \in Slots :
        /\ requests[r1].mission_id = requests[r2].mission_id
        /\ requests[r1].cat_id # requests[r2].cat_id
        /\ requests[r1].status = 200
        /\ requests[r2].status = 409
        /\ requests[r2].cat_id \in DOMAIN fake_cats_db
        /\ requests[r1].cat_id \in DOMAIN fake_cats_db
        /\ requests[r1].mission_id \in DOMAIN fake_missions_db
        /\ ~fake_missions_db[requests[r1].mission_id].is_complete
        /\ fake_missions_db[requests[r1].mission_id].cat_id = requests[r1].cat_id
        /\ fake_cats_db[requests[r1].cat_id].mission_id = requests[r1].mission_id

\* Two concurrent requests for the same cat have both succeeded, the second
\* after the mission of the first was completed and deleted.
C14_SecondAfterDeletion ==
    \E r1, r2 \in Slots :
        /\ requests[r1].cat_id = requests[r2].cat_id
        /\ requests[r1].status = 200
        /\ requests[r2].status = 200
        /\ requests[r1].mission_id \notin DOMAIN fake_missions_db
        /\ requests[r2].mission_id \in DOMAIN fake_missions_db
        /\ requests[r2].cat_id \in DOMAIN fake_cats_db
        /\ fake_cats_db[requests[r2].cat_id].mission_id = requests[r2].mission_id

\* Mission bodies with a target list too short or too long.
MissionCreateInvalid ==
    [is_complete : BOOLEAN,
     targets : [1..(min_length - 1) -> TargetCreate]
               \cup [1..(max_length + 1) -> TargetCreate]]

\* C15, one state: every stored target is listed by exactly one stored
\* mission, every listed target is stored, a mission lists 1 to 3 targets
\* and none twice, and a body with fewer or more targets answers 422 and
\* stores nothing.
C15_Ownership ==
    /\ \A t \in DOMAIN fake_targets_db :
          Cardinality({m \in DOMAIN fake_missions_db : t \in Owned(m)}) = 1
    /\ \A m \in DOMAIN fake_missions_db :
          /\ Owned(m) \subseteq DOMAIN fake_targets_db
          /\ Len(fake_missions_db[m].targets) \in 1..3
          /\ Cardinality(Owned(m)) = Len(fake_missions_db[m].targets)
    /\ \A mission_in \in MissionCreateInvalid :
          create_new_mission(Db, mission_in) = Result(Db, 422)

\* C15, one step: a mission that stays in the store lists the same targets
\* in the same order.
C15_TargetsFixed ==
    \A m \in DOMAIN fake_missions_db \cap DOMAIN fake_missions_db' :
        fake_missions_db'[m].targets = fake_missions_db[m].targets

\* C15: targets belong to exactly one mission, and a mission's 1 to 3
\* targets are the same from its creation to its deletion.
C15_TargetsOwnedOnce == []C15_Ownership /\ [][C15_TargetsFixed]_vars

\* Two missions each own their target; one target has notes and is
\* complete, the other has notes and is not.
C15_Witness ==
    /\ DOMAIN fake_missions_db = {1, 2}
    /\ \E t1 \in Owned(1), t2 \in Owned(2) :
          /\ fake_targets_db[t1].is_complete
          /\ fake_targets_db[t1].notes \in UpdateNotes
          /\ ~fake_targets_db[t2].is_complete
          /\ fake_targets_db[t2].notes \in UpdateNotes

\* C16, one state: a created mission has no cat reference; assign-cat on a
\* mission whose cat reference is set answers 409 and changes nothing when
\* the request names a stored cat, the mission complete or not.
C16_SetReferenceConflicts ==
    /\ \A mission_in \in MissionCreate :
          create_new_mission(Db, mission_in).db.missions[next_mission_id].cat_id = None
    /\ \A m \in DOMAIN fake_missions_db : \A c \in DOMAIN fake_cats_db :
          fake_missions_db[m].cat_id # None =>
              assign_cat_to_a_mission(Db, m, c) = Result(Db, 409)

\* C16 as stated: every assign-cat on a mission whose cat reference is set
\* answers 409, whatever cat id the request carries.
C16_EveryAssignConflicts ==
    \A m \in DOMAIN fake_missions_db : \A c \in CatIds :
        fake_missions_db[m].cat_id # None =>
            assign_cat_to_a_mission(Db, m, c).status = 409

\* C16, one step: the cat reference of a mission that stays in the store
\* changes only from absent to a cat, and only by the successful assign-cat
\* of that cat to that mission.
C16_WriteOnce ==
    \A m \in DOMAIN fake_missions_db \cap DOMAIN fake_missions_db' :
        fake_missions_db'[m].cat_id # fake_missions_db[m].cat_id =>
            /\ fake_missions_db[m].cat_id = None
            /\ assign_cat_to_a_mission(Db, m, fake_missions_db'[m].cat_id) =
                   Result(Db', 200)

\* C16 as amended: the cat reference is write-once, and an assign-cat that
\* names a stored cat on a mission whose reference is set answers 409.
C16_CatReferenceWriteOnce ==
    []C16_SetReferenceConflicts /\ [][C16_WriteOnce]_vars

\* A complete mission still names its cat, which has since been deleted,
\* and assigning the cat that is left to it answers 409.
C16_Witness ==
    \E m \in DOMAIN fake_missions_db : \E c \in DOMAIN fake_cats_db :
        /\ fake_missions_db[m].is_complete
        /\ fake_missions_db[m].cat_id # None
        /\ fake_missions_db[m].cat_id \notin DOMAIN fake_cats_db
        /\ assign_cat_to_a_mission(Db, m, c).status = 409

\* C17: update-notes and mark-target-complete answer 404 and change nothing
\* when the mission id is unknown or the target id is not one of the
\* mission's targets, the addressed mission complete or not.
C17_NotOwnedIsNotFound ==
    \A m \in MissionIds : \A t \in TargetIds : \A notes \in NotesTexts :
        (m \notin DOMAIN fake_missions_db \/ t \notin Owned(m)) =>
            /\ update_mission_target_notes(Db, m, t, notes) = Result(Db, 404)
            /\ mark_mission_target_complete(Db, m, t) = Result(Db, 404)

\* The number of keys of a store below id: the position, from 0, of id.
Rank(store, id) == Cardinality({k \in DOMAIN store : k < id})

\* body is the page of store for skip and limit: as many entities as lie at
\* positions skip .. skip + limit - 1, the i-th of them the stored entity at
\* position skip + i - 1.
IsPage(body, store, skip, limit) ==
    LET n == Cardinality(DOMAIN store)
        rest == IF skip < n THEN n - skip ELSE 0
    IN
    /\ Len(body) = IF limit < rest THEN limit ELSE rest
    /\ \A i \in 1..Len(body) :
          /\ body[i].id \in DOMAIN store
          /\ Rank(store, body[i].id) = skip + i - 1
          /\ body[i].item = store[body[i].id]

\* skip and limit values a listing request may carry: from 0 to past the
\* number of entities a store can hold.
PageArgs == 0..3

\* C18: for skip >= 0 and limit >= 0, listing cats and listing missions
\* answer 200 with the entities at positions skip .. skip + limit - 1 of the
\* store in id order, with the empty sequence when skip is at or past the
\* number of entities, and change nothing; only stored entities appear.
C18_Listing ==
    \A skip \in PageArgs : \A limit \in PageArgs :
        LET cats == list_spy_cats(Db, skip, limit)
            missions == list_all_missions(Db, skip, limit)
        IN
        /\ cats.status = 200 /\ cats.db = Db
        /\ IsPage(cats.body, fake_cats_db, skip, limit)
        /\ missions.status = 200 /\ missions.db = Db
        /\ IsPage(missions.body, fake_missions_db, skip, limit)
        /\ skip >= Cardinality(DOMAIN fake_cats_db) => cats.body = << >>
        /\ skip >= Cardinality(DOMAIN fake_missions_db) => missions.body = << >>

\* Cat 1 has been deleted: the cats listed are cat 2 alone; of the two
\* missions, skip 1 and limit 1 list the second, skip 0 and limit 1 the first.
C18_Witness ==
    /\ next_cat_id = 3
    /\ DOMAIN fake_missions_db = {1, 2}
    /\ list_spy_cats(Db, 0, 3).body = <<[id |-> 2, item |-> fake_cats_db[2]]>>
    /\ list_all_missions(Db, 1, 1).body = <<[id |-> 2, item |-> fake_missions_db[2]]>>
    /\ list_all_missions(Db, 0, 1).body = <<[id |-> 1, item |-> fake_missions_db[1]]>>

\* C19: update-salary with a salary > 0 on a stored cat answers 200, sets
\* that cat's salary and changes nothing else, on an active mission or not;
\* on an id not in the store it answers 404 and changes nothing; a salary
\* that is not > 0 answers 422 and changes nothing; every stored cat has
\* salary > 0 and experience >= 0.
C19_UpdateSalary ==
    /\ \A c \in CatIds : \A salary \in SalaryUpdates :
          LET r == update_spy_cat_salary(Db, c, TRUE, salary) IN
          IF ~(salary > 0) THEN r = Result(Db, 422)
          ELSE IF c \notin DOMAIN fake_cats_db THEN r = Result(Db, 404)
          ELSE /\ r.status = 200
               /\ DOMAIN r.db.cats = DOMAIN fake_cats_db
               /\ r.db.cats[c].salary = salary
               /\ r.db.cats[c].name = fake_cats_db[c].name
               /\ r.db.cats[c].breed = fake_cats_db[c].breed
               /\ r.db.cats[c].years_of_experience = fake_cats_db[c].years_of_experience
               /\ r.db.cats[c].mission_id = fake_cats_db[c].mission_id
               /\ \A d \in DOMAIN fake_cats_db \ {c} : r.db.cats[d] = fake_cats_db[d]
               /\ r.db.missions = fake_missions_db
               /\ r.db.targets = fake_targets_db
               /\ r.db.next_cat_id = next_cat_id
               /\ r.db.next_mission_id = next_mission_id
               /\ r.db.next_target_id = next_target_id
    /\ \A c \in DOMAIN fake_cats_db :
          fake_cats_db[c].salary > 0 /\ fake_cats_db[c].years_of_experience >= 0

\* A cat on an active mission has a salary it was not created with.
C19_Witness ==
    \E c \in DOMAIN fake_cats_db :
        /\ fake_cats_db[c].salary = 2
        /\ fake_cats_db[c].mission_id \in DOMAIN fake_missions_db
        /\ ~fake_missions_db[fake_cats_db[c].mission_id].is_complete
        /\ fake_missions_db[fake_cats_db[c].mission_id].cat_id = c

\* The statuses of a request that succeeded.
Success == {200, 201, 204}

\* C20: a create-cat, delete-cat, assign-cat, update-notes,
\* mark-target-complete or delete-mission request that answers an error
\* (404, 409, 400, and the validation and breed-service errors as well)
\* leaves the three stores and the three counters as they were.
C20_ErrorsChangeNothing ==
    /\ \A cat_in \in CatCreate : \A api \in ApiReplies :
          LET r == create_spy_cat(Db, cat_in, api) IN
          r.status \notin Success => r.db = Db
    /\ \A c \in CatIds :
          LET r == delete_spy_cat(Db, c) IN
          r.status \notin Success => r.db = Db
    /\ \A m \in MissionIds : \A c \in CatIds :
          LET r == assign_cat_to_a_mission(Db, m, c) IN
          r.status \notin Success => r.db = Db
    /\ \A m \in MissionIds : \A t \in TargetIds : \A notes \in NotesTexts :
          LET r == update_mission_target_notes(Db, m, t, notes) IN
          r.status \notin Success => r.db = Db
    /\ \A m \in MissionIds : \A t \in TargetIds :
          LET r == mark_mission_target_complete(Db, m, t) IN
          r.status \notin Success => r.db = Db
    /\ \A m \in MissionIds :
          LET r == delete_a_mission(Db, m) IN
          r.status \notin Success => r.db = Db

\* A cat serves a two-target mission with one target complete: deleting the
\* cat or the mission, assigning the cat again, writing notes to the
\* complete target, creating the cat a second time and completing a target
\* of no mission all answer errors.
C20_Witness ==
    \E c \in DOMAIN fake_cats_db : \E m \in DOMAIN fake_missions_db :
        \E t \in Owned(m) : \E api \in ApiReplies :
            /\ delete_spy_cat(Db, c).status = 400
            /\ delete_a_mission(Db, m).status = 400
            /\ assign_cat_to_a_mission(Db, m, c).status = 409
            /\ update_mission_target_notes(Db, m, t, "b").status = 400
            /\ mark_mission_target_complete(Db, m, MaxTargets + 1).status = 404
            /\ create_spy_cat(Db, [name |-> fake_cats_db[c].name,
                                   breed |-> fake_cats_db[c].breed,
                                   years_of_experience |-> 0,
                                   salary |-> 1], api).status = 409

\* C21: a mark-target-complete that answers 200 leaves the stores' ids and
\* the counters as they were; the addressed target differs at most in its
\* completion flag, which is set; no other target changes; the owning
\* mission differs at most in its completion flag and no other mission
\* changes; a cat changes only if it is the cat the mission names, the
\* mission became complete by this request and the cat was pointing at this
\* mission, and then only its mission reference changes, to absent.
C21_MarkCompleteFrame ==
    \A m \in MissionIds : \A t \in TargetIds :
        LET r == mark_mission_target_complete(Db, m, t) IN
        r.status = 200 =>
            /\ DOMAIN r.db.cats = DOMAIN fake_cats_db
            /\ DOMAIN r.db.missions = DOMAIN fake_missions_db
            /\ DOMAIN r.db.targets = DOMAIN fake_targets_db
            /\ r.db.next_cat_id = next_cat_id
            /\ r.db.next_mission_id = next_mission_id
            /\ r.db.next_target_id = next_target_id
            /\ r.db.targets[t] = [fake_targets_db[t] EXCEPT !.is_complete = TRUE]
            /\ \A u \in DOMAIN fake_targets_db \ {t} :
                  r.db.targets[u] = fake_targets_db[u]
            /\ r.db.missions[m].targets = fake_missions_db[m].targets
            /\ r.db.missions[m].cat_id = fake_missions_db[m].cat_id
            /\ \A n \in DOMAIN fake_missions_db \ {m} :
                  r.db.missions[n] = fake_missions_db[n]
            /\ \A c \in DOMAIN fake_cats_db :
                  r.db.cats[c] # fake_cats_db[c] =>
                      /\ c = fake_missions_db[m].cat_id
                      /\ ~fake_missions_db[m].is_complete
                      /\ r.db.missions[m].is_complete
                      /\ fake_cats_db[c].mission_id = m
                      /\ r.db.cats[c] = [fake_cats_db[c] EXCEPT !.mission_id = None]

\* A mission with notes on its target has been completed and its cat is
\* free, while the other cat is still on the other, incomplete mission.
C21_Witness ==
    \E m1, m2 \in DOMAIN fake_missions_db : \E c1, c2 \in DOMAIN fake_cats_db :
        /\ fake_missions_db[m1].is_complete
        /\ fake_missions_db[m1].cat_id = c1
        /\ fake_cats_db[c1].mission_id = None
        /\ \E t \in Owned(m1) : fake_targets_db[t].notes \in UpdateNotes
        /\ ~fake_missions_db[m2].is_complete
        /\ fake_missions_db[m2].cat_id = c2
        /\ fake_cats_db[c2].mission_id = m2

\* C22, one state: no two stored cats have the same name and breed; a task
\* between the duplicate check and the return of create_cat holds the loop;
\* two requests answered 201 carry different ids; and, whenever the loop is
\* free for a request to run, a well-formed create-cat whose pair is not
\* stored (never stored, or deleted since) and whose breed is accepted
\* answers 201 and stores the cat under an id greater than every stored id.
C22_UniquePairs ==
    /\ \A c1, c2 \in DOMAIN fake_cats_db :
          (/\ fake_cats_db[c1].name = fake_cats_db[c2].name
           /\ fake_cats_db[c1].breed = fake_cats_db[c2].breed) => c1 = c2
    /\ \A r \in Slots :
          requests[r].pc \in {"c29", "c32", "c40", "c41"} => running = r
    /\ \A r1, r2 \in Slots :
          (r1 # r2 /\ requests[r1].status = 201 /\ requests[r2].status = 201) =>
              requests[r1].cat_id # requests[r2].cat_id
    /\ \A cat_in \in CreateRequests : \A api \in ApiReplies :
          (/\ running = None
           /\ ~CatExists(fake_cats_db, cat_in)
           /\ validate_cat_breed_from_payload(cat_in.breed, api) = 0) =>
              LET r == create_spy_cat(Db, cat_in, api) IN
              /\ r.status = 201
              /\ DOMAIN r.db.cats = DOMAIN fake_cats_db \cup {next_cat_id}
              /\ r.db.cats[next_cat_id].name = cat_in.name
              /\ r.db.cats[next_cat_id].breed = cat_in.breed
              /\ \A k \in DOMAIN fake_cats_db : k < next_cat_id

\* C22, one step: a cat that enters the store enters under the counter's
\* value, above every stored id, and no stored cat has its name and breed.
C22_StoredOnce ==
    \A k \in DOMAIN fake_cats_db' \ DOMAIN fake_cats_db :
        /\ k = next_cat_id
        /\ \A j \in DOMAIN fake_cats_db : j < k
        /\ ~CatExists(fake_cats_db, fake_cats_db'[k])

\* C22: stored cats are unique in (name, breed) under concurrent create-cat
\* requests, and a deleted cat's pair can be created again under a fresh id.
C22_NoDuplicateCats == []C22_UniquePairs /\ [][C22_StoredOnce]_vars

\* Two requests for the same name and breed both passed breed validation
\* while nothing had been stored; one answered 201 and its cat is stored,
\* the other answered 409.
C22_Witness ==
    \E r1, r2 \in Slots :
        /\ requests[r1].pc = "done" /\ requests[r2].pc = "done"
        /\ requests[r1].cat_in.name = requests[r2].cat_in.name
        /\ requests[r1].cat_in.breed = requests[r2].cat_in.breed
        /\ requests[r1].seen = 1 /\ requests[r2].seen = 1
        /\ requests[r1].status = 201
        /\ requests[r2].status = 409
        /\ requests[r1].cat_id \in DOMAIN fake_cats_db
        /\ Cardinality(DOMAIN fake_cats_db) = 1

\* The cat of the first request has been deleted, and the second request,
\* for the same name and breed, has stored its cat under the next id.
C22_Recreated ==
    \E r1, r2 \in Slots :
        /\ requests[r1].pc = "done" /\ requests[r2].pc = "done"
        /\ requests[r1].cat_in.name = requests[r2].cat_in.name
        /\ requests[r1].cat_in.breed = requests[r2].cat_in.breed
        /\ requests[r1].status = 201 /\ requests[r2].status = 201
        /\ requests[r1].cat_id \notin DOMAIN fake_cats_db
        /\ requests[r2].cat_id \in DOMAIN fake_cats_db
        /\ requests[r2].cat_id > requests[r1].cat_id

====
